---- MODULE Spec2Model ----
(***************************************************************************)
(* quickstart.py: a straight-line script of blocking calls to the Azure AI *)
(* Agents SDK.  The model executes the module body statement by statement. *)
(* pc is the first line of the statement to execute next.  Every SDK call  *)
(* is two steps: the request is issued (and the script blocks), then the   *)
(* call returns or raises.  The file has no try/except, so a raised        *)
(* exception ends the script.                                              *)
(*                                                                         *)
(* Inputs: the names already bound in the namespace the module body is     *)
(* executed in (`python quickstart.py` binds neither `os` nor `project`;   *)
(* the script never binds them itself), the environment variables that     *)
(* are set, the contents of the .env file, and everything the remote       *)
(* service answers (ids, run status, number of replies, failures).         *)
(***************************************************************************)
EXTENDS Integers, Sequences, FiniteSets, TLC

VARIABLES pc, outstanding, err, names, env, store, runStatus, messages,
          iter, iterOn, log, nextId, live, deleted, threadMsgs

pyvars == <<names, env, store, runStatus, messages, iter, iterOn>>
svcvars == <<nextId, live, deleted, threadMsgs>>
vars == <<pc, outstanding, err, pyvars, log, svcvars>>

\* Most assistant messages a run adds to its thread.
MaxReplies == 2

\* One past the last line of the file: the script ran to its end.
EndOfFile == 144

EnvVarNames == {"PROJECT_ENDPOINT", "MODEL_DEPLOYMENT_NAME"}

\* Names the script reads but never binds.
FreeNames == {"os", "project"}

\* Variables of the script that hold a handle returned by the service.
HandleVars == {"agent", "thread", "message", "run", "file", "vector_store", "result"}

\* Terminal statuses runs.create_and_process can return.
RunStatuses == {"completed", "failed", "cancelled", "expired"}

NoErr == [line |-> 0, kind |-> "none"]

Event(l, op, args) == [line |-> l, op |-> op, args |-> args, ret |-> 0]

----------------------------------------------------------------------------
(* Mutants of Ready: a script that goes on after an exception, and a       *)
(* script whose calls do not block.                                        *)
ReadyAfterError(l) == pc = l /\ outstanding = {}

ReadyNonBlocking(l) == pc = l /\ err = NoErr

\* The statement at line l is the next to execute: the previous call has
\* returned and no exception has propagated.
Ready(l) == pc = l /\ outstanding = {} /\ err = NoErr

\* The script is blocked in the call of the statement at line l.
Waiting(l) == pc = l /\ l \in outstanding /\ err = NoErr

\* An uncaught exception: nothing in the file handles it.
Raise(l, kind) ==
    /\ err' = [line |-> l, kind |-> kind]
    /\ outstanding' = {}
    /\ UNCHANGED <<pc, pyvars, log, svcvars>>

\* The request of a blocking call goes out.
Issue(l, op, args) ==
    /\ log' = Append(log, Event(l, op, args))
    /\ outstanding' = outstanding \cup {l}
    /\ UNCHANGED <<pc, err, pyvars, svcvars>>

\* Mutant of Bound: `project` resolved as if it were `project_client`.
BoundAlias(U) == (U \ {"project"}) \subseteq names

\* Every name of U resolves in the module namespace.
Bound(U) == U \subseteq names

\* First half of a call statement: its arguments are evaluated (names of U,
\* os.environ[...] of E), then the request is issued.
Begin(l, U, E, op, args) ==
    /\ Ready(l)
    /\ IF ~Bound(U) THEN Raise(l, "NameError")
       ELSE IF ~(E \subseteq env) THEN Raise(l, "KeyError")
       ELSE Issue(l, op, args)

\* Second half of a call statement: the call returns ret and the script
\* goes on at line next.
Finish(l, next, ret) ==
    /\ Waiting(l)
    /\ outstanding' = {}
    /\ pc' = next
    /\ log' = [log EXCEPT ![Len(log)].ret = ret]
    /\ err' = err

\* A statement that calls nothing remote: print, import, constructor.
Local(l, next, U, op, args) ==
    /\ Ready(l)
    /\ IF ~Bound(U) THEN Raise(l, "NameError")
       ELSE /\ pc' = next
            /\ log' = Append(log, Event(l, op, args))
            /\ UNCHANGED <<outstanding, err>>

\* name = <handle h returned by the service>
Bind(name, h) ==
    /\ names' = names \cup {name}
    /\ store' = [store EXCEPT ![name] = h]

\* The service creates one resource and returns its id.
Create ==
    /\ nextId' = nextId + 1
    /\ live' = live \cup {nextId}
    /\ UNCHANGED deleted

\* The service deletes resource h.
Delete(h) ==
    /\ live' = live \ {h}
    /\ deleted' = deleted \cup {h}
    /\ UNCHANGED <<nextId, threadMsgs>>

----------------------------------------------------------------------------
Init ==
    /\ pc = 24
    /\ outstanding = {}
    /\ err = NoErr
    /\ names \in SUBSET FreeNames
    /\ env \in SUBSET EnvVarNames
    /\ store = [v \in HandleVars |-> 0]
    /\ runStatus = "none"
    /\ messages = <<>>
    /\ iter = <<>>
    /\ iterOn = FALSE
    /\ log = <<>>
    /\ nextId = 1
    /\ live = {}
    /\ deleted = {}
    /\ threadMsgs = <<>>

\* from dotenv import load_dotenv; load_dotenv()
load_dotenv ==
    /\ Ready(24)
    /\ \E dotenv \in SUBSET EnvVarNames : env' = env \cup dotenv
    /\ names' = names \cup {"load_dotenv"}
    /\ pc' = 32
    /\ UNCHANGED <<outstanding, err, store, runStatus, messages, iter, iterOn,
                   log, svcvars>>

\* from azure... import AIProjectClient, DefaultAzureCredential, FileSearchTool
imports ==
    /\ Ready(32)
    /\ names' = names \cup {"AIProjectClient", "DefaultAzureCredential", "FileSearchTool"}
    /\ pc' = 37
    /\ UNCHANGED <<outstanding, err, env, store, runStatus, messages, iter,
                   iterOn, log, svcvars>>

\* project_client = AIProjectClient(endpoint=os.environ["PROJECT_ENDPOINT"], ...)
client_construction ==
    /\ Ready(37)
    /\ IF ~Bound({"AIProjectClient", "os"}) THEN Raise(37, "NameError")
       ELSE IF "PROJECT_ENDPOINT" \notin env THEN Raise(37, "KeyError")
       ELSE /\ names' = names \cup {"project_client"}
            /\ pc' = 43
            /\ UNCHANGED <<outstanding, err, env, store, runStatus, messages,
                           iter, iterOn, log, svcvars>>

\* openai = project_client.get_openai_client(api_version="2024-06-01")
get_openai_client ==
    \/ Begin(43, {"project_client"}, {}, "get_openai_client", <<>>)
    \/ /\ Finish(43, 44, 0)
       /\ names' = names \cup {"openai"}
       /\ UNCHANGED <<env, store, runStatus, messages, iter, iterOn, svcvars>>

\* response = openai.chat.completions.create(model=os.environ[...], ...)
chat_completions_create ==
    \/ Begin(44, {"openai", "os"}, {"MODEL_DEPLOYMENT_NAME"},
             "chat.completions.create", <<>>)
    \/ /\ Finish(44, 53, 0)
       /\ names' = names \cup {"response"}
       /\ UNCHANGED <<env, store, runStatus, messages, iter, iterOn, svcvars>>

\* print(response.choices[0].message.content)
print_response ==
    /\ Local(53, 58, {"response"}, "print", <<>>)
    /\ UNCHANGED <<pyvars, svcvars>>

----------------------------------------------------------------------------
(* <create_and_run_agent>                                                  *)

\* agent = project_client.agents.create_agent(model=os.environ[...], ...)
create_agent ==
    \/ Begin(58, {"project_client", "os"}, {"MODEL_DEPLOYMENT_NAME"},
             "create_agent", <<>>)
    \/ /\ Finish(58, 63, nextId)
       /\ Bind("agent", nextId)
       /\ Create
       /\ UNCHANGED <<env, runStatus, messages, iter, iterOn, threadMsgs>>

\* print(f"Created agent, ID: {agent.id}")
print_agent ==
    /\ Local(63, 66, {"agent"}, "print", <<store["agent"]>>)
    /\ UNCHANGED <<pyvars, svcvars>>

\* thread = project_client.agents.threads.create()
threads_create ==
    \/ Begin(66, {"project_client"}, {}, "threads.create", <<>>)
    \/ /\ Finish(66, 67, nextId)
       /\ Bind("thread", nextId)
       /\ Create
       /\ threadMsgs' = (nextId :> <<>>) @@ threadMsgs
       /\ UNCHANGED <<env, runStatus, messages, iter, iterOn>>

\* print(f"Created thread, ID: {thread.id}")
print_thread ==
    /\ Local(67, 70, {"thread"}, "print", <<store["thread"]>>)
    /\ UNCHANGED <<pyvars, svcvars>>

\* message = project_client.agents.messages.create(thread_id=thread.id, ...)
messages_create ==
    \/ Begin(70, {"project_client", "thread"}, {}, "messages.create",
             <<store["thread"]>>)
    \/ /\ Finish(70, 75, nextId)
       /\ Bind("message", nextId)
       /\ Create
       /\ threadMsgs' = [threadMsgs EXCEPT ![store["thread"]] = Append(@, nextId)]
       /\ UNCHANGED <<env, runStatus, messages, iter, iterOn>>

\* print(f"Created message, ID: {message['id']}")
print_message ==
    /\ Local(75, 78, {"message"}, "print", <<store["message"]>>)
    /\ UNCHANGED <<pyvars, svcvars>>

\* The ids of the k assistant messages a run adds, after the run's own id.
Replies(k) == [i \in 1..k |-> nextId + i]

\* The service processes a run to a terminal status st, adding k replies.
RunReturns(thread, st, k) ==
    /\ Bind("run", nextId)
    /\ runStatus' = st
    /\ nextId' = nextId + 1 + k
    /\ live' = live \cup (nextId..(nextId + k))
    /\ threadMsgs' = [threadMsgs EXCEPT ![thread] = @ \o Replies(k)]
    /\ UNCHANGED <<env, messages, iter, iterOn, deleted>>

\* run = project_client.agents.runs.create_and_process(thread_id=thread.id,
\*                                                     agent_id=agent.id)
runs_create_and_process ==
    \/ Begin(78, {"project_client", "thread", "agent"}, {},
             "runs.create_and_process", <<store["thread"], store["agent"]>>)
    \/ /\ Finish(78, 79, nextId)
       /\ \E st \in RunStatuses, k \in 0..MaxReplies :
              RunReturns(store["thread"], st, k)

\* print(f"Run finished with status: {run.status}")
print_run_status ==
    /\ Local(79, 81, {"run"}, "print", <<store["run"]>>)
    /\ UNCHANGED <<pyvars, svcvars>>

\* Mutant of StatusFailed: every run that did not complete counts as failed.
StatusNotCompleted(st) == st # "completed"

\* run.status == "failed"
StatusFailed(st) == st = "failed"

\* if run.status == "failed": the branch goes to then when the comparison
\* is true and to else otherwise.
Check(l, then, else) ==
    /\ Ready(l)
    /\ IF ~Bound({"run"}) THEN Raise(l, "NameError")
       ELSE /\ pc' = IF StatusFailed(runStatus) THEN then ELSE else
            /\ log' = Append(log, Event(l, "check", <<store["run"]>>))
            /\ UNCHANGED <<outstanding, err, pyvars, svcvars>>

\* Mutant of check_run_status: the listing and the deletion sit inside the
\* branch's else part, after the deletion.
check_run_status_skips_listing == Check(81, 83, 91)

\* if run.status == "failed":
check_run_status == Check(81, 83, 86)

\* Mutant of print_run_failed: the listing is the else part of the branch.
print_run_failed_skips_listing ==
    /\ Local(83, 91, {"run"}, "print_last_error", <<store["run"]>>)
    /\ UNCHANGED <<pyvars, svcvars>>

\*     print(f"Run failed: {run.last_error}")
print_run_failed ==
    /\ Local(83, 86, {"run"}, "print_last_error", <<store["run"]>>)
    /\ UNCHANGED <<pyvars, svcvars>>

\* messages = project_client.agents.messages.list(thread_id=thread.id)
messages_list ==
    \/ Begin(86, {"project_client", "thread"}, {}, "messages.list",
             <<store["thread"]>>)
    \/ /\ Finish(86, 87, 0)
       /\ messages' = threadMsgs[store["thread"]]
       /\ names' = names \cup {"messages"}
       /\ UNCHANGED <<env, store, runStatus, iter, iterOn, svcvars>>

\* for message in <it>: the next item is bound to `message` and the body at
\* line body runs, or the iterator is exhausted and the loop is left.
ForMessage(l, body, exit, it) ==
    /\ Ready(l)
    /\ IF it = <<>>
       THEN /\ pc' = exit
            /\ iter' = <<>>
            /\ iterOn' = FALSE
            /\ UNCHANGED <<names, store>>
       ELSE /\ pc' = body
            /\ Bind("message", Head(it))
            /\ iter' = Tail(it)
            /\ iterOn' = TRUE
    /\ UNCHANGED <<outstanding, err, env, runStatus, messages, log, svcvars>>

\* for message in messages:
for_message_in_messages ==
    ForMessage(87, 88, 91, IF iterOn THEN iter ELSE messages)

\*     print(f"Role: {message.role}, Content: {message.content}")
print_role_content ==
    /\ Local(88, 87, {"message"}, "print", <<store["message"]>>)
    /\ UNCHANGED <<pyvars, svcvars>>

\* project_client.agents.delete_agent(agent.id)
delete_agent ==
    \/ Begin(91, {"project_client", "agent"}, {}, "delete_agent",
             <<store["agent"]>>)
    \/ /\ Finish(91, 92, 0)
       /\ Delete(store["agent"])
       /\ UNCHANGED pyvars

\* print("Deleted agent")
print_deleted_agent ==
    /\ Local(92, 98, {}, "print", <<>>)
    /\ UNCHANGED <<pyvars, svcvars>>

----------------------------------------------------------------------------
(* <create_filesearch_agent>                                               *)

\* file = project.agents.files.upload(file_path="product_info_1.md", ...)
files_upload ==
    \/ Begin(98, {"project"}, {}, "files.upload", <<>>)
    \/ /\ Finish(98, 99, nextId)
       /\ Bind("file", nextId)
       /\ Create
       /\ UNCHANGED <<env, runStatus, messages, iter, iterOn, threadMsgs>>

\* vector_store = project.agents.vector_stores.create_and_poll(
\*     file_ids=[file.id], name="my_vectorstore")
vector_stores_create_and_poll ==
    \/ Begin(99, {"project", "file"}, {}, "vector_stores.create_and_poll",
             <<store["file"]>>)
    \/ /\ Finish(99, 102, nextId)
       /\ Bind("vector_store", nextId)
       /\ Create
       /\ UNCHANGED <<env, runStatus, messages, iter, iterOn, threadMsgs>>

\* file_search = FileSearchTool(vector_store_ids=[vector_store.id])
file_search_tool ==
    /\ Ready(102)
    /\ IF ~Bound({"FileSearchTool", "vector_store"}) THEN Raise(102, "NameError")
       ELSE /\ names' = names \cup {"file_search"}
            /\ pc' = 103
            /\ UNCHANGED <<outstanding, err, env, store, runStatus, messages,
                           iter, iterOn, log, svcvars>>

\* agent = project.agents.create_agent(model="gpt-4o", ...,
\*     tools=file_search.definitions, tool_resources=file_search.resources)
create_agent_filesearch ==
    \/ Begin(103, {"project", "file_search"}, {}, "create_agent",
             <<store["vector_store"]>>)
    \/ /\ Finish(103, 112, nextId)
       /\ Bind("agent", nextId)
       /\ Create
       /\ UNCHANGED <<env, runStatus, messages, iter, iterOn, threadMsgs>>

\* Mutant of threads_create_filesearch: the new thread is not bound to
\* `thread`, which keeps the thread of the first sequence.
threads_create_unbound ==
    \/ Begin(112, {"project"}, {}, "threads.create", <<>>)
    \/ /\ Finish(112, 113, nextId)
       /\ Create
       /\ threadMsgs' = (nextId :> <<>>) @@ threadMsgs
       /\ UNCHANGED pyvars

\* thread = project.agents.threads.create()
threads_create_filesearch ==
    \/ Begin(112, {"project"}, {}, "threads.create", <<>>)
    \/ /\ Finish(112, 113, nextId)
       /\ Bind("thread", nextId)
       /\ Create
       /\ threadMsgs' = (nextId :> <<>>) @@ threadMsgs
       /\ UNCHANGED <<env, runStatus, messages, iter, iterOn>>

\* project.agents.messages.create(thread_id=thread.id, role="user", ...)
messages_create_filesearch ==
    \/ Begin(113, {"project", "thread"}, {}, "messages.create",
             <<store["thread"]>>)
    \/ /\ Finish(113, 114, nextId)
       /\ Create
       /\ threadMsgs' = [threadMsgs EXCEPT ![store["thread"]] = Append(@, nextId)]
       /\ UNCHANGED pyvars

\* run = project.agents.runs.create_and_process(thread_id=thread.id,
\*                                              agent_id=agent.id)
runs_create_and_process_filesearch ==
    \/ Begin(114, {"project", "thread", "agent"}, {},
             "runs.create_and_process", <<store["thread"], store["agent"]>>)
    \/ /\ Finish(114, 117, nextId)
       /\ \E st \in RunStatuses, k \in 0..MaxReplies :
              RunReturns(store["thread"], st, k)

\* if run.status == "failed":
check_run_status_filesearch == Check(117, 118, 121)

\*     print(f"Run failed: {run.last_error}")
print_run_failed_filesearch ==
    /\ Local(118, 121, {"run"}, "print_last_error", <<store["run"]>>)
    /\ UNCHANGED <<pyvars, svcvars>>

\* project.agents.vector_stores.delete(vector_store.id)
vector_stores_delete ==
    \/ Begin(121, {"project", "vector_store"}, {}, "vector_stores.delete",
             <<store["vector_store"]>>)
    \/ /\ Finish(121, 122, 0)
       /\ Delete(store["vector_store"])
       /\ UNCHANGED pyvars

\* Mutant of files_delete: the uploaded file is left behind.
files_delete_skipped ==
    /\ Ready(122)
    /\ pc' = 123
    /\ UNCHANGED <<outstanding, err, pyvars, log, svcvars>>

\* project.agents.files.delete(file_id=file.id)
files_delete ==
    \/ Begin(122, {"project", "file"}, {}, "files.delete", <<store["file"]>>)
    \/ /\ Finish(122, 123, 0)
       /\ Delete(store["file"])
       /\ UNCHANGED pyvars

\* project.agents.delete_agent(agent.id)
delete_agent_filesearch ==
    \/ Begin(123, {"project", "agent"}, {}, "delete_agent", <<store["agent"]>>)
    \/ /\ Finish(123, 126, 0)
       /\ Delete(store["agent"])
       /\ UNCHANGED pyvars

\* for message in project.agents.messages.list(thread_id=thread.id).text_messages:
\* the iterable is evaluated once (the call), then the loop steps through it.
for_message_in_messages_list ==
    \/ /\ ~iterOn
       /\ Begin(126, {"project", "thread"}, {}, "messages.list",
                <<store["thread"]>>)
    \/ /\ Finish(126, 126, 0)
       /\ iter' = threadMsgs[store["thread"]]
       /\ iterOn' = TRUE
       /\ UNCHANGED <<names, env, store, runStatus, messages, svcvars>>
    \/ /\ iterOn
       /\ ForMessage(126, 127, 131, iter)

\*     print(message)
print_text_message ==
    /\ Local(127, 126, {"message"}, "print", <<store["message"]>>)
    /\ UNCHANGED <<pyvars, svcvars>>

----------------------------------------------------------------------------
(* <evaluate_agent_run>                                                    *)

\* from azure.ai.projects import EvaluatorIds
import_EvaluatorIds ==
    /\ Ready(131)
    /\ names' = names \cup {"EvaluatorIds"}
    /\ pc' = 133
    /\ UNCHANGED <<outstanding, err, env, store, runStatus, messages, iter,
                   iterOn, log, svcvars>>

\* result = project.evaluation.create_agent_evaluation(thread=thread.id,
\*     run=run.id, evaluators=[EvaluatorIds.AGENT_QUALITY_EVALUATOR])
create_agent_evaluation ==
    \/ Begin(133, {"project", "thread", "run", "EvaluatorIds"}, {},
             "create_agent_evaluation", <<store["thread"], store["run"]>>)
    \/ /\ Finish(133, 139, nextId)
       /\ Bind("result", nextId)
       /\ Create
       /\ UNCHANGED <<env, runStatus, messages, iter, iterOn, threadMsgs>>

\* result.wait_for_completion()
wait_for_completion ==
    \/ Begin(139, {"result"}, {}, "wait_for_completion", <<store["result"]>>)
    \/ /\ Finish(139, 142, 0)
       /\ UNCHANGED <<pyvars, svcvars>>

\* print(result.output()): the call, then the print of what it returned
print_result_output ==
    \/ /\ Begin(142, {"result"}, {}, "output", <<store["result"]>>)
    \/ /\ Waiting(142)
       /\ outstanding' = {}
       /\ pc' = EndOfFile
       /\ log' = Append(log, Event(142, "print", <<store["result"]>>))
       /\ UNCHANGED <<err, pyvars, svcvars>>

----------------------------------------------------------------------------
\* Any SDK call may raise (authentication, network, service error); the
\* exception is not caught.  What the failed request did on the service is
\* not recorded: nothing later in the script could observe it.
call_raises ==
    /\ Waiting(pc)
    /\ Raise(pc, "SDKError")

Next ==
    \/ load_dotenv \/ imports \/ client_construction \/ get_openai_client
    \/ chat_completions_create \/ print_response
    \/ create_agent \/ print_agent \/ threads_create \/ print_thread
    \/ messages_create \/ print_message \/ runs_create_and_process
    \/ print_run_status \/ check_run_status \/ print_run_failed
    \/ messages_list \/ for_message_in_messages \/ print_role_content
    \/ delete_agent \/ print_deleted_agent
    \/ files_upload \/ vector_stores_create_and_poll \/ file_search_tool
    \/ create_agent_filesearch \/ threads_create_filesearch
    \/ messages_create_filesearch \/ runs_create_and_process_filesearch
    \/ check_run_status_filesearch \/ print_run_failed_filesearch
    \/ vector_stores_delete \/ files_delete \/ delete_agent_filesearch
    \/ for_message_in_messages_list \/ print_text_message
    \/ import_EvaluatorIds \/ create_agent_evaluation \/ wait_for_completion
    \/ print_result_output
    \/ call_raises

Spec == Init /\ [][Next]_vars

----------------------------------------------------------------------------
(* Properties *)

\* Events that are no request to the service.
LocalOps == {"print", "print_last_error", "check"}

IsCall(e) == e.op \notin LocalOps

Ops(events) == [i \in 1..Len(events) |-> events[i].op]

Lines(events) == [i \in 1..Len(events) |-> events[i].line]

IsPrefix(s, t) == Len(s) <= Len(t) /\ \A i \in 1..Len(s) : s[i] = t[i]

\* The calls and the status check of the first agent sequence, as issued.
InAgentSequence(e) == e.line \in 58..92 /\ e.op \notin {"print", "print_last_error"}

AgentSequence == SelectSeq(log, InAgentSequence)

AgentSequenceOrder ==
    <<"create_agent", "threads.create", "messages.create",
      "runs.create_and_process", "check", "messages.list", "delete_agent">>

\* C1: at every point the calls of the first agent sequence issued so far
\* are, each once, a prefix of create_agent, threads.create,
\* messages.create, runs.create_and_process, status check, messages.list,
\* delete_agent; when the sequence has run through without a failure all
\* seven have been issued, the message, the run and the listing on the
\* thread created by the sequence and the run and the deletion on its agent.
C1_AgentSequenceOrder ==
    LET s == AgentSequence IN
    /\ IsPrefix(Ops(s), AgentSequenceOrder)
    /\ pc >= 92 =>
          /\ Ops(s) = AgentSequenceOrder
          /\ s[1].ret # 0 /\ s[2].ret # 0
          /\ s[3].args = <<s[2].ret>>
          /\ s[4].args = <<s[2].ret, s[1].ret>>
          /\ s[5].args = <<s[4].ret>>
          /\ s[6].args = <<s[2].ret>>
          /\ s[7].args = <<s[1].ret>>

\* The first agent sequence has run through and its agent is deleted.
C1_Witness ==
    /\ pc = 92 /\ err = NoErr
    /\ Len(AgentSequence) = 7
    /\ AgentSequence[1].ret \in deleted

Calls == SelectSeq(log, IsCall)

HasEvent(l) == \E i \in 1..Len(log) : log[i].line = l

Count(op) == Cardinality({i \in 1..Len(log) : log[i].op = op})

CountAt(l) == Cardinality({i \in 1..Len(log) : log[i].line = l /\ IsCall(log[i])})

Range(s) == {s[i] : i \in 1..Len(s)}

\* The calls and the status check of the file-search sequence, as issued.
InFileSearchSequence(e) ==
    e.line \in 98..127 /\ e.op \notin {"print", "print_last_error"}

FileSearchSequence == SelectSeq(log, InFileSearchSequence)

----------------------------------------------------------------------------
\* The statement that follows each statement that is no branch and no loop
\* head, in the text of the file.
Follows ==
    [l \in {24, 32, 37, 43, 44, 53, 58, 63, 66, 67, 70, 75, 78, 79, 83, 86, 88,
            91, 92, 98, 99, 102, 103, 112, 113, 114, 118, 121, 122, 123, 127,
            131, 133, 139, 142} |->
        CASE l = 24 -> 32 [] l = 32 -> 37 [] l = 37 -> 43 [] l = 43 -> 44
          [] l = 44 -> 53 [] l = 53 -> 58 [] l = 58 -> 63 [] l = 63 -> 66
          [] l = 66 -> 67 [] l = 67 -> 70 [] l = 70 -> 75 [] l = 75 -> 78
          [] l = 78 -> 79 [] l = 79 -> 81 [] l = 83 -> 86 [] l = 86 -> 87
          [] l = 88 -> 87 [] l = 91 -> 92 [] l = 92 -> 98 [] l = 98 -> 99
          [] l = 99 -> 102 [] l = 102 -> 103 [] l = 103 -> 112
          [] l = 112 -> 113 [] l = 113 -> 114 [] l = 114 -> 117
          [] l = 118 -> 121 [] l = 121 -> 122 [] l = 122 -> 123
          [] l = 123 -> 126 [] l = 127 -> 126 [] l = 131 -> 133
          [] l = 133 -> 139 [] l = 139 -> 142 [] l = 142 -> EndOfFile]

\* The diagnostic of a sequence has been printed exactly when the run of
\* that sequence returned with status "failed".  `run` holds the first run
\* until the second create_and_process returns (pc = 117).
DiagnosticIffFailed ==
    /\ (pc \in 86..114) => (HasEvent(83) <=> runStatus = "failed")
    /\ (pc >= 121) => (HasEvent(118) <=> runStatus = "failed")

\* The original C3: the script makes one conditional check.
C3_ExactlyOneCheck == Count("check") <= 1

\* C3 (amended): the script makes two conditional checks, one in each agent
\* sequence (lines 81 and 117); each compares the run's status with
\* "failed" and goes to the diagnostic exactly when they are equal; the
\* only other statements whose successor depends on what the service
\* returned are the two for loops over the listed messages (87 and 126);
\* every other statement is followed by the next statement of the text.
C3_TwoChecks ==
    /\ [](/\ Count("check") <= 2
          /\ \A i \in 1..Len(log) :
                /\ log[i].op = "check" => log[i].line \in {81, 117}
                /\ log[i].op = "print_last_error" =>
                      /\ i > 1
                      /\ log[i-1].op = "check"
                      /\ <<log[i-1].line, log[i].line>> \in {<<81, 83>>, <<117, 118>>}
                      /\ log[i].args = log[i-1].args
          /\ DiagnosticIffFailed)
    /\ [][pc' # pc =>
            /\ pc \in DOMAIN Follows => pc' = Follows[pc]
            /\ pc = 81 => pc' = IF runStatus = "failed" THEN 83 ELSE 86
            /\ pc = 117 => pc' = IF runStatus = "failed" THEN 118 ELSE 121
            /\ pc \in {81, 117, 87, 126} \cup DOMAIN Follows]_vars

\* Both checks were made, the first found a failed run and printed the
\* diagnostic, the second did not.
C3_Witness ==
    /\ pc = 121
    /\ Count("check") = 2
    /\ HasEvent(83) /\ ~HasEvent(118)

----------------------------------------------------------------------------
\* C4: after an uncaught exception (anything but a run that comes back
\* with status "failed") the script issues nothing more: the log, the
\* position and the service's resources stay as they are, in particular
\* nothing created before the failure is deleted; no call was issued at a
\* line after the failing statement, and no call was issued twice.
C4_FailureTerminates ==
    /\ [](err # NoErr =>
            /\ \A i \in 1..Len(log) : log[i].line <= err.line
            /\ \A i, j \in 1..Len(log) :
                  (IsCall(log[i]) /\ IsCall(log[j]) /\ log[i].line = log[j].line)
                      => i = j
            /\ err.kind = "SDKError" =>
                  /\ Len(log) > 0
                  /\ log[Len(log)].line = err.line
                  /\ IsCall(log[Len(log)])
            /\ pc = err.line)
    /\ [][err # NoErr => UNCHANGED <<log, pc, live, deleted, err>>]_vars

\* The listing of the first sequence failed: the agent created before it is
\* left undeleted.
C4_Witness ==
    /\ err = [line |-> 86, kind |-> "SDKError"]
    /\ store["agent"] \in live
    /\ Count("delete_agent") = 0

----------------------------------------------------------------------------
\* The lines of the calls, in the order of the text.
ProgramOrder ==
    <<43, 44, 58, 66, 70, 78, 86, 91, 98, 99, 103, 112, 113, 114, 121, 122, 123,
      126, 133, 139, 142>>

\* C5: at most one request is outstanding, and it is the last one issued;
\* a call is issued only when no request is outstanding; the calls issued
\* so far are a prefix of the calls of the text, top to bottom.
C5_Synchronous ==
    /\ [](/\ Cardinality(outstanding) <= 1
          /\ outstanding # {} =>
                /\ Len(Calls) > 0
                /\ outstanding = {Calls[Len(Calls)].line}
          /\ IsPrefix(Lines(Calls), ProgramOrder))
    /\ [][Len(Calls') > Len(Calls) => outstanding = {} /\ outstanding' # {}]_vars

\* The script is blocked in the run of the file-search sequence, thirteen
\* calls having returned before it.
C5_Witness ==
    /\ outstanding = {114}
    /\ Len(Calls) = 14

----------------------------------------------------------------------------
IsDelete(e) == e.op \in {"delete_agent", "files.delete", "vector_stores.delete"}

\* h is a run of agent a.
RunOfAgent(h, a) ==
    \E i \in 1..Len(log) :
        /\ log[i].op = "runs.create_and_process"
        /\ log[i].ret = h
        /\ log[i].args[2] = a

\* t is a thread that was run by an agent with vector store v attached.
ThreadServedBy(t, v) ==
    \E i, j \in 1..Len(log) :
        /\ log[i].op = "runs.create_and_process"
        /\ log[i].args[1] = t
        /\ log[j].op = "create_agent"
        /\ log[j].ret = log[i].args[2]
        /\ v \in Range(log[j].args)

----------------------------------------------------------------------------
\* C7: the evaluation is requested with the thread and the run of the
\* file-search sequence's create_and_process, which has returned, and not
\* with those of the first sequence; the output is printed only after
\* wait_for_completion was called on the evaluation.
C7_EvaluatesLatestRun ==
    \A i \in 1..Len(log) :
        /\ log[i].op = "create_agent_evaluation" =>
              /\ \E j \in 1..(i-1) :
                    /\ log[j].line = 114
                    /\ log[j].ret # 0
                    /\ log[i].args = <<log[j].args[1], log[j].ret>>
              /\ \A k \in 1..(i-1) : log[k].line = 78 =>
                    /\ log[i].args[1] # log[k].args[1]
                    /\ log[i].args[2] # log[k].ret
        /\ log[i].line = 142 =>
              \E j, k \in 1..(i-1) :
                    /\ j < k
                    /\ log[j].op = "create_agent_evaluation"
                    /\ log[k].op = "wait_for_completion"
                    /\ log[k].args = <<log[j].ret>>
                    /\ log[i].args = <<log[j].ret>>

\* The output of the evaluation has been printed.
C7_Witness ==
    /\ pc = EndOfFile
    /\ Count("create_agent_evaluation") = 1
    /\ log[Len(log)] = [line |-> 142, op |-> "print", args |-> <<store["result"]>>, ret |-> 0]

----------------------------------------------------------------------------
\* C8: with `os` unbound (the script as written) no call is ever issued and
\* the statement at line 37 can only raise NameError; with `project`
\* unbound (even when `os` is bound) no call of the file-search or the
\* evaluation sequence is ever issued, the script never gets past line 98,
\* and the statement there can only raise NameError, the first agent
\* having been deleted by then.
C8_DoesNotRunAsIs ==
    /\ []("os" \notin names =>
            /\ log = <<>>
            /\ pc <= 37
            /\ err \in {NoErr, [line |-> 37, kind |-> "NameError"]})
    /\ []("project" \notin names =>
            /\ \A i \in 1..Len(log) : log[i].line < 98
            /\ pc <= 98
            /\ pc = 98 =>
                  /\ err \in {NoErr, [line |-> 98, kind |-> "NameError"]}
                  /\ Count("delete_agent") = 1
                  /\ \A i \in 1..Len(log) :
                        log[i].op = "create_agent" => log[i].ret \in deleted)
    /\ [][(pc = 37 /\ "os" \notin names) \/ (pc = 98 /\ "project" \notin names)
            => err'.kind = "NameError" /\ pc' = pc]_vars

\* With `os` bound the script got through the first agent sequence and
\* stopped at the file upload on the unbound name `project`.
C8_Witness ==
    /\ err = [line |-> 98, kind |-> "NameError"]
    /\ "os" \in names
    /\ Count("delete_agent") = 1

----------------------------------------------------------------------------
\* The calls of the text after the first and after the second status check.
AfterFirstCheck == <<"messages.list", "delete_agent">>

AfterSecondCheck ==
    <<"vector_stores.delete", "files.delete", "delete_agent", "messages.list",
      "create_agent_evaluation", "wait_for_completion", "output">>

CallsIn(lo, hi) == SelectSeq(log, LAMBDA e : IsCall(e) /\ e.line \in lo..hi)

\* C9: the diagnostic is printed exactly when the run's status is "failed";
\* each run is created once; whatever the status, the calls after the check
\* are the same: the listing and the deletion in the first sequence, the
\* cleanup, the listing and the evaluation in the file-search sequence.
C9_RunOutcomeChangesNoCall ==
    /\ DiagnosticIffFailed
    /\ CountAt(78) <= 1 /\ CountAt(114) <= 1
    /\ IsPrefix(Ops(CallsIn(82, 92)), AfterFirstCheck)
    /\ IsPrefix(Ops(CallsIn(118, 143)), AfterSecondCheck)
    /\ (pc >= 92 /\ pc <= 103) =>
          /\ Ops(CallsIn(82, 92)) = AfterFirstCheck
          /\ CallsIn(82, 92)[1].args = <<store["thread"]>>
          /\ CallsIn(82, 92)[2].args = <<store["agent"]>>
    /\ pc = EndOfFile =>
          /\ Ops(CallsIn(82, 92)) = AfterFirstCheck
          /\ Ops(CallsIn(118, 143)) = AfterSecondCheck
          /\ CountAt(78) = 1 /\ CountAt(114) = 1

\* The script ran to its end after a first run that failed (diagnostic
\* printed) and a second run that was cancelled (no diagnostic).
C9_Witness ==
    /\ pc = EndOfFile
    /\ HasEvent(83) /\ ~HasEvent(118)
    /\ runStatus = "cancelled"

----------------------------------------------------------------------------
\* The calls that create a resource, and those of them whose resource the
\* script deletes.
CreateOps ==
    {"create_agent", "threads.create", "messages.create",
     "runs.create_and_process", "files.upload",
     "vector_stores.create_and_poll", "create_agent_evaluation"}

DeletedKinds == {"create_agent", "files.upload", "vector_stores.create_and_poll"}

\* The number of delete calls issued for handle h.
Deletions(h) ==
    Cardinality({i \in 1..Len(log) : IsDelete(log[i]) /\ log[i].args = <<h>>})

\* Every agent but the one `agent` holds has been deleted.
AgentDeletedBeforeRebind ==
    \A i \in 1..Len(log) :
        (log[i].op = "create_agent" /\ log[i].ret # 0 /\ log[i].ret # store["agent"])
            => Deletions(log[i].ret) = 1 /\ log[i].ret \in deleted

\* The original C10: at the end of a failure-free execution every created
\* resource but the threads has been deleted exactly once.
C10_OnlyThreadsLeft ==
    /\ AgentDeletedBeforeRebind
    /\ pc = EndOfFile =>
          \A i \in 1..Len(log) : log[i].op \in CreateOps =>
              Deletions(log[i].ret) = IF log[i].op = "threads.create" THEN 0 ELSE 1

\* C10 (amended): at the end of a failure-free execution every agent,
\* uploaded file and vector store the script created has been deleted
\* exactly once; an agent is deleted before `agent` is rebound to a newer
\* one; for the threads, and for the messages, runs and the evaluation
\* created for them, no delete call is ever issued.
C10_CleanupBalance ==
    /\ AgentDeletedBeforeRebind
    /\ \A i \in 1..Len(log) :
          /\ (log[i].op \in CreateOps \ DeletedKinds) => Deletions(log[i].ret) = 0
          /\ log[i].op \in DeletedKinds => Deletions(log[i].ret) <= 1
    /\ pc = EndOfFile =>
          /\ \A i \in 1..Len(log) : log[i].op \in DeletedKinds =>
                /\ log[i].ret # 0
                /\ Deletions(log[i].ret) = 1
                /\ log[i].ret \in deleted
          /\ Count("create_agent") = 2
          /\ Count("files.upload") = 1
          /\ Count("vector_stores.create_and_poll") = 1

\* The script ran to its end: two agents, the file and the vector store are
\* deleted, both threads are left.
C10_Witness ==
    /\ pc = EndOfFile
    /\ Cardinality(deleted) = 4
    /\ DOMAIN threadMsgs \subseteq live
    /\ Cardinality(DOMAIN threadMsgs) = 2

====
